---- MODULE Spec2Model ----
(***************************************************************************)
(* Model of the graph partitioner (ModuleGradientGraphBuilder) and of the  *)
(* recompute insertion pass (TransformerLayerRecompute).                   *)
(*                                                                         *)
(* A graph is a record                                                     *)
(*   nodes   : sequence of nodes, position = node index                    *)
(*   inputs  : declared graph inputs  (sequence of names, Null = nullptr)  *)
(*   outputs : declared graph outputs (sequence of names, Null = nullptr)  *)
(*   inits   : names of the initialized tensors (constant storage)         *)
(*   args    : names of the NodeArgs the graph owns                        *)
(*   shape   : concrete dimension written on the user inputs (0 = none)    *)
(* A node is a record name, op, desc, inputs, outputs, priority, attrs,     *)
(* domain.                                                                 *)
(***************************************************************************)
EXTENDS Naturals, Integers, Sequences, FiniteSets, TLC

VARIABLES
  \* ---- ModuleGradientGraphBuilder members
  model_,            \* the base model saved by Initialize
  config_,           \* the configuration saved by Initialize
  info,              \* split_graphs_info_
  forward_model_,
  backward_model_,
  gradient_model_,
  status,            \* result of the last builder call
  last_call,         \* what the last builder call was and what it worked on
  \* ---- TransformerLayerRecompute: the graph the pass is applied to
  graph,
  pre_graph,         \* the graph as it was when the last application started
  rstatus,           \* result of the last application
  modified,
  edges_found,       \* layer_start_edges / layer_end_edges of the last application
  passes,            \* number of applications so far that added nodes
  \* ---- NodesBetweenEdges applied to a (start, end) pair
  span_in,
  span_out,
  \* ---- BuildAndSplit calls in progress on the one builder, step by step
  requests,          \* per call: position, shape, differentiator rule, local graph
  \* ---- The loops of the pass, one iteration at a time
  trav               \* position, walk node, queues, visited sets, enqueue logs

bvars == <<model_, config_, info, forward_model_, backward_model_, gradient_model_,
           status, last_call>>
rvars == <<graph, pre_graph, rstatus, modified, edges_found, passes>>
svars == <<span_in, span_out>>
cvars == <<requests>>
tvars == <<trav>>
vars == <<bvars, rvars, svars, cvars, tvars>>

Null == "<null>"

\* A model pointer that holds no model
NoModel == [null |-> TRUE]

\* Largest concrete dimension a caller asks for
MaxDim == 2

\* Largest number of Build calls on one builder
MaxBuilds == 2

\* Largest number of nodes of a graph the recompute pass is applied to
MaxNodes == 4

\* Largest number of applications of the recompute pass that add nodes to one graph
MaxPasses == 2

\* Largest number of nodes of a graph spans are extracted from
MaxSpanNodes == 4
MaxPad == 3

\* ------------------------------------------------------------------------
\* Sequences and names
\* ------------------------------------------------------------------------
SeqToSet(s) == {s[i] : i \in DOMAIN s}

Contains(s, e) == \E i \in DOMAIN s : s[i] = e

NoDup(s) == \A i, j \in DOMAIN s : s[i] = s[j] => i = j

RECURSIVE Concat(_)
Concat(ss) == IF ss = <<>> THEN <<>> ELSE Head(ss) \o Concat(Tail(ss))

Reverse(s) == [i \in 1..Len(s) |-> s[Len(s) + 1 - i]]

\* All the orders in which the elements of a finite set can be listed
RECURSIVE Perms(_)
Perms(S) == IF S = {} THEN {<<>>}
            ELSE UNION {{<<e>> \o p : p \in Perms(S \ {e})} : e \in S}

GradName(n) == n \o "_grad"

RecomputeName(n) == n \o "_recompute"

BackwardPass == "Backward pass"

\* ------------------------------------------------------------------------
\* Dataflow graph
\* ------------------------------------------------------------------------
kOnnxDomain == ""

kMSDomain == "com.microsoft"

MkNodeP(name, op, desc, ins, outs, prio, attrs, domain) ==
  [name |-> name, op |-> op, desc |-> desc, inputs |-> ins, outputs |-> outs,
   priority |-> prio, attrs |-> attrs, domain |-> domain]

MkNode(name, op, desc, ins, outs) ==
  MkNodeP(name, op, desc, ins, outs, 0, {}, kOnnxDomain)

NodeIds(g) == DOMAIN g.nodes

InputNames(nodes) == UNION {SeqToSet(n.inputs) : n \in nodes}

OutputNames(nodes) == UNION {SeqToSet(n.outputs) : n \in nodes}

\* Graph::AddNode: the node gets the next index; its arguments become NodeArgs
AddNode(g, n) ==
  [g EXCEPT !.nodes = Append(@, n),
            !.args = @ \cup SeqToSet(n.inputs) \cup SeqToSet(n.outputs)]

\* Graph::GetNodeArg: nullptr when the graph owns no NodeArg of that name
GetNodeArg(g, name) == IF name \in g.args THEN name ELSE Null

\* Graph::GetProducerNode: index of the node producing name, 0 = nullptr
ProducerOf(g, name) ==
  IF \E i \in NodeIds(g) : Contains(g.nodes[i].outputs, name)
  THEN CHOOSE i \in NodeIds(g) :
         /\ Contains(g.nodes[i].outputs, name)
         /\ \A j \in NodeIds(g) : Contains(g.nodes[j].outputs, name) => i <= j
  ELSE 0

\* Graph::GetConsumerNodes
ConsumersOf(g, name) == {i \in NodeIds(g) : Contains(g.nodes[i].inputs, name)}

\* The output edges of node i: (consumer, source output position, consumer
\* input position), one per consuming input slot
OutputEdges(g, i) ==
  UNION {{<<c, s, d>> : d \in {k \in DOMAIN g.nodes[c].inputs :
                                   g.nodes[c].inputs[k] = g.nodes[i].outputs[s]}} :
           <<c, s>> \in NodeIds(g) \X (DOMAIN g.nodes[i].outputs)}

\* Node::OutputNodes / Node::InputNodes (the nodes at the other end of the edges)
OutputNodes(g, i) == {c \in NodeIds(g) :
                        \E nm \in SeqToSet(g.nodes[i].outputs) : Contains(g.nodes[c].inputs, nm)}

InputNodes(g, i) == {p \in NodeIds(g) :
                       \E nm \in SeqToSet(g.nodes[i].inputs) : Contains(g.nodes[p].outputs, nm)}

\* Peel off the nodes none of whose producers is left; what stays is on a cycle
RECURSIVE OnCycles(_, _)
OnCycles(g, rest) ==
  LET free == {i \in rest : InputNodes(g, i) \cap rest = {}}
  IN IF free = {} THEN rest ELSE OnCycles(g, rest \ free)

Acyclic(g) == OnCycles(g, NodeIds(g)) = {}

SingleProducer(g) ==
  \A i, j \in NodeIds(g) :
    (SeqToSet(g.nodes[i].outputs) \cap SeqToSet(g.nodes[j].outputs) # {}) => i = j

\* Graph::Resolve: the graph is valid when it is acyclic, every reference has
\* at most one producer, every node input is produced by a node or is a
\* declared graph input or an initializer, and the declared interface names
\* existing references
Resolve(g) ==
  /\ Acyclic(g)
  /\ SingleProducer(g)
  /\ NoDup([i \in NodeIds(g) |-> g.nodes[i].name])
  /\ \A i \in NodeIds(g) : \A nm \in SeqToSet(g.nodes[i].inputs) :
       \/ ProducerOf(g, nm) # 0
       \/ Contains(g.inputs, nm)
       \/ nm \in g.inits
  /\ ~Contains(g.inputs, Null)
  /\ ~Contains(g.outputs, Null)
  /\ \A nm \in SeqToSet(g.outputs) :
       ProducerOf(g, nm) # 0 \/ Contains(g.inputs, nm) \/ nm \in g.inits

\* GraphViewer::GetNodesInTopologicalOrder: the orders of the node indices in
\* which every node comes after the producers of its inputs
RECURSIVE TopoExtend(_, _, _)
TopoExtend(g, done, rest) ==
  IF rest = {} THEN {done}
  ELSE UNION {TopoExtend(g, Append(done, i), rest \ {i}) :
                i \in {j \in rest : InputNodes(g, j) \cap rest = {}}}

TopoOrders(g) == TopoExtend(g, <<>>, NodeIds(g))

\* ------------------------------------------------------------------------
\* ModuleGradientGraphBuilder
\* ------------------------------------------------------------------------
EmptyInfo ==
  [user_input_names |-> <<>>, user_output_names |-> <<>>,
   initializer_names_to_train |-> <<>>, initializer_grad_names_to_train |-> <<>>,
   user_output_grad_names |-> <<>>, backward_output_grad_names |-> <<>>,
   intermediate_tensor_names |-> <<>>, backward_user_input_names |-> <<>>,
   backward_intializer_names_as_input |-> <<>>, user_input_grad_names |-> {},
   ordered_initializer_names |-> <<>>]

\* GetInputAndOutputNames folded over a set of nodes of a graph
NodeSetOf(g, ids) == {g.nodes[i] : i \in ids}

\* RemoveNodes: the nodes are removed together with their output edges; the
\* NodeArgs stay in the graph
RemoveNodes(g, ids) ==
  LET keep == [i \in NodeIds(g) |-> i \notin ids]
      F[k \in 0..Len(g.nodes)] ==
        IF k = 0 THEN <<>>
        ELSE IF keep[k] THEN Append(F[k - 1], g.nodes[k]) ELSE F[k - 1]
  IN [g EXCEPT !.nodes = F[Len(g.nodes)]]

\* FilterInitializers: drop every initializer that is not in input_names
FilterInitializers(g, input_names) == [g EXCEPT !.inits = @ \cap input_names]

\* Graph::RemoveInitializedTensor
RemoveInitializedTensor(g, name) == [g EXCEPT !.inits = @ \ {name}]

SetInputs(g, input_args) == [g EXCEPT !.inputs = input_args]

SetOutputs(g, output_args) == [g EXCEPT !.outputs = output_args]

\* Mutant of BackwardIds: the description is compared with another string
BackwardIdsWrongMarker(g) == {i \in NodeIds(g) : g.nodes[i].desc = "Backward"}

\* Split, lines 465-481: names read and written by the marked and by the
\* unmarked nodes, and the names that cross from the one to the other
BackwardIds(g) == {i \in NodeIds(g) : g.nodes[i].desc = BackwardPass}

ForwardIds(g) == {i \in NodeIds(g) : g.nodes[i].desc # BackwardPass}

IntermediateArgNames(g) ==
  OutputNames(NodeSetOf(g, ForwardIds(g))) \cap InputNames(NodeSetOf(g, BackwardIds(g)))

\* The intermediate names with line 509 left out: user outputs are kept
IntermediateTensorNamesWithUserOutputs(inf, order) == order

\* Split, lines 505-514: the intermediate names in the iteration order `order`
\* of the unordered set, the user outputs ignored
IntermediateTensorNames(inf, order) ==
  LET NotUserOutput(nm) == ~Contains(inf.user_output_names, nm)
  IN SelectSeq(order, NotUserOutput)

\* Split, lines 457-517: the forward copy
SplitForward(fg, inf, order) ==
  LET forward_input_names == InputNames(NodeSetOf(fg, ForwardIds(fg)))
      g1 == FilterInitializers(RemoveNodes(fg, BackwardIds(fg)), forward_input_names)
      forward_input_args ==
        [i \in DOMAIN inf.user_input_names |-> GetNodeArg(g1, inf.user_input_names[i])]
        \o [i \in DOMAIN inf.initializer_names_to_train |->
              GetNodeArg(g1, inf.initializer_names_to_train[i])]
      inter == IntermediateTensorNames(inf, order)
      forward_output_args ==
        [i \in DOMAIN inf.user_output_names |-> GetNodeArg(g1, inf.user_output_names[i])]
        \o [i \in DOMAIN inter |-> GetNodeArg(g1, inter[i])]
  IN SetOutputs(SetInputs(g1, forward_input_args), forward_output_args)

\* The declared inputs with the loop of lines 564-566 moved before the loop
\* of lines 557-561
BackwardInputArgsGradsFirst(g, user_in, init_in, inter, out_grads) ==
  [i \in DOMAIN user_in |-> GetNodeArg(g, user_in[i])]
  \o [i \in DOMAIN init_in |-> GetNodeArg(g, init_in[i])]
  \o [i \in DOMAIN out_grads |-> GetNodeArg(g, out_grads[i])]
  \o [i \in DOMAIN inter |-> GetNodeArg(g, inter[i])]

\* Mutant of BackwardInputArgs: the intermediate references are left out
BackwardInputArgsNoIntermediates(g, user_in, init_in, inter, out_grads) ==
  [i \in DOMAIN user_in |-> GetNodeArg(g, user_in[i])]
  \o [i \in DOMAIN init_in |-> GetNodeArg(g, init_in[i])]
  \o [i \in DOMAIN out_grads |-> GetNodeArg(g, out_grads[i])]

\* Split, lines 534-568: the declared inputs of the backward copy
BackwardInputArgs(g, user_in, init_in, inter, out_grads) ==
  [i \in DOMAIN user_in |-> GetNodeArg(g, user_in[i])]
  \o [i \in DOMAIN init_in |-> GetNodeArg(g, init_in[i])]
  \o [i \in DOMAIN inter |-> GetNodeArg(g, inter[i])]
  \o [i \in DOMAIN out_grads |-> GetNodeArg(g, out_grads[i])]

\* Split, lines 519-580: the backward copy
SplitBackward(bg, inf, order) ==
  LET backward_input_names == InputNames(NodeSetOf(bg, BackwardIds(bg)))
      backward_output_names == OutputNames(NodeSetOf(bg, BackwardIds(bg)))
      g1 == FilterInitializers(RemoveNodes(bg, ForwardIds(bg)), backward_input_names)
      InBackward(nm) == nm \in backward_input_names
      user_in == SelectSeq(inf.user_input_names, InBackward)
      init_in == SelectSeq(inf.initializer_names_to_train, InBackward)
      g2 == [g1 EXCEPT !.inits = @ \ SeqToSet(init_in)]
      IsBackwardOutput(nm) == nm \in backward_output_names
      backward_output_args == SelectSeq(g2.outputs, IsBackwardOutput)
  IN SetOutputs(SetInputs(g2, BackwardInputArgs(g2, user_in, init_in,
                                                IntermediateTensorNames(inf, order),
                                                inf.backward_output_grad_names)),
                backward_output_args)

\* What Split would write with the intermediate names recorded in the
\* opposite order of the one the graphs get
SplitInfoReversed(cg, inf, order) ==
  LET backward_input_names == InputNames(NodeSetOf(cg, BackwardIds(cg)))
      InBackward(nm) == nm \in backward_input_names
      inter == IntermediateTensorNames(inf, order)
  IN [inf EXCEPT
        !.intermediate_tensor_names = [i \in DOMAIN inter |-> inter[Len(inter) + 1 - i]],
        !.backward_user_input_names = SelectSeq(inf.user_input_names, InBackward),
        !.backward_intializer_names_as_input =
           SelectSeq(inf.initializer_names_to_train, InBackward)]

\* Split, lines 506-554: what Split writes into split_graphs_info_
SplitInfo(cg, inf, order) ==
  LET backward_input_names == InputNames(NodeSetOf(cg, BackwardIds(cg)))
      InBackward(nm) == nm \in backward_input_names
  IN [inf EXCEPT
        !.intermediate_tensor_names = IntermediateTensorNames(inf, order),
        !.backward_user_input_names = SelectSeq(inf.user_input_names, InBackward),
        !.backward_intializer_names_as_input =
           SelectSeq(inf.initializer_names_to_train, InBackward)]

\* Split, lines 517, 580-581: the results of Resolve are dropped and OK is
\* returned
SplitStatus(fwd, bwd) == "ok"

\* ------------------------------------------------------------------------
\* External collaborators of the builder
\* ------------------------------------------------------------------------
\* Names that need a gradient: the x names and everything computed from them
RECURSIVE NeedGrad(_, _)
NeedGrad(g, S) ==
  LET T == S \cup OutputNames({n \in SeqToSet(g.nodes) : SeqToSet(n.inputs) \cap S # {}})
  IN IF T = S THEN S ELSE NeedGrad(g, T)

\* The gradient node of forward node n for its input at position j. It reads
\* the gradient of n's first output and the activations the rule keeps:
\* the other inputs of n ("input"), or those and n's first output ("both").
GradNodeFor(n, j, saved) ==
  LET others == [k \in 1..(Len(n.inputs) - 1) |->
                   IF k < j THEN n.inputs[k] ELSE n.inputs[k + 1]]
      keep == IF n.op = "MatMul" \/ saved = "input" THEN others
              ELSE others \o <<n.outputs[1]>>
  IN MkNode(n.name \o "_Grad_" \o n.inputs[j], n.op \o "Grad", BackwardPass,
            <<GradName(n.outputs[1])>> \o keep, <<GradName(n.inputs[j])>>)

\* GradientGraphBuilder::Build: the graph augmented with the gradient nodes,
\* marked "Backward pass", later forward nodes first. Every x name whose
\* gradient is defined (not in nograd) gets a node producing <name>_grad.
\* With set_gradients_as_graph_outputs the gradients of the x names become
\* graph outputs.
Differentiate(g, y_names, x_names, as_outputs, saved, nograd) ==
  LET need == NeedGrad(g, SeqToSet(x_names))
      GradsOf(i) ==
        LET n == g.nodes[i]
            G[j \in 0..Len(n.inputs)] ==
              IF j = 0 THEN <<>>
              ELSE IF n.inputs[j] \in need /\ n.inputs[j] \notin nograd
                   THEN Append(G[j - 1], GradNodeFor(n, j, saved))
                   ELSE G[j - 1]
        IN G[Len(n.inputs)]
      N == Len(g.nodes)
      added == Concat([k \in 1..N |-> GradsOf(N + 1 - k)])
      produced == OutputNames(SeqToSet(added))
      IsProduced(nm) == GradName(nm) \in produced
      xg == SelectSeq(x_names, IsProduced)
  IN [g EXCEPT !.nodes = @ \o added,
               !.args = @ \cup InputNames(SeqToSet(added)) \cup produced,
               !.outputs = IF as_outputs
                           THEN @ \o [i \in DOMAIN xg |-> GradName(xg[i])]
                           ELSE @]

\* GraphTransformerManager::ApplyTransformers: does not change the external
\* inputs and outputs; the graphs of the model are left as they are
ApplyTransformers(g) == g

\* Model::ToProto followed by Model::Load: an independent copy
CopyModel(g) == g

\* ------------------------------------------------------------------------
\* The models and configurations a caller can supply
\* ------------------------------------------------------------------------
LoadedModel(outs) ==
  [nodes |-> <<MkNode("n1", "MatMul", "", <<"x", "w">>, <<"h">>),
               MkNode("n2", "Add", "", <<"h", "c">>, <<"a">>),
               MkNode("n3", "Relu", "", <<"a">>, <<"y">>)>>,
   inputs |-> <<"x">>, outputs |-> outs, inits |-> {"w", "c"},
   args |-> {"x", "w", "c", "h", "a", "y"}, shape |-> 0]

ModelFamily == {LoadedModel(outs) : outs \in {<<"y">>, <<"y", "h">>, <<"a", "y">>}}

ConfigFamily ==
  [initializer_names_to_train : {<<>>, <<"w">>, <<"c", "w">>},
   input_names_require_grad : {<<>>, <<"x">>},
   use_invertible_layernorm_grad : {FALSE}]

Shapes == 1..MaxDim

SavedRules == {"input", "both"}

\* ------------------------------------------------------------------------
\* Initialize (lines 46-87)
\* ------------------------------------------------------------------------
InitializeGraph(loaded, inf) ==
  LET input_args ==
        [i \in DOMAIN inf.user_input_names |-> GetNodeArg(loaded, inf.user_input_names[i])]
        \o [i \in DOMAIN inf.initializer_names_to_train |->
              GetNodeArg(loaded, inf.initializer_names_to_train[i])]
  IN SetInputs([loaded EXCEPT !.inits = @ \ SeqToSet(inf.initializer_names_to_train)],
               input_args)

InitializeInfo(loaded, cfg, inf) ==
  [inf EXCEPT !.user_input_names = @ \o loaded.inputs,
              !.user_output_names = @ \o loaded.outputs,
              !.initializer_names_to_train = cfg.initializer_names_to_train]

Initialize(loaded, cfg, ok) ==
  /\ model_ = NoModel
  /\ last_call' = [op |-> "Initialize", combined |-> NoModel, builds |-> last_call.builds]
  /\ IF ~ok
     THEN /\ status' = "fail"
          /\ UNCHANGED <<model_, config_, info>>
     ELSE /\ status' = "ok"
          /\ info' = InitializeInfo(loaded, cfg, info)
          /\ model_' = InitializeGraph(loaded, InitializeInfo(loaded, cfg, info))
          /\ config_' = cfg
  /\ UNCHANGED <<forward_model_, backward_model_, gradient_model_, rvars, svars, cvars, tvars>>

\* ------------------------------------------------------------------------
\* BuildAndSplit (lines 89-234)
\* ------------------------------------------------------------------------
\* x_node_arg_names: the trainable initializers and the inputs requiring grad
XNames(cfg) == cfg.initializer_names_to_train \o
               SelectSeq(cfg.input_names_require_grad,
                         LAMBDA nm : ~Contains(cfg.initializer_names_to_train, nm))

\* lines 96-117: the copy with the requested input shapes
Specialize(copy, inf, d) ==
  LET n == Len(inf.user_input_names)
      input_args == [i \in 1..n |-> GetNodeArg(copy, inf.user_input_names[i])]
                    \o SubSeq(copy.inputs, n + 1, Len(copy.inputs))
  IN SetInputs([copy EXCEPT !.shape = d], input_args)

\* lines 176-190: the gradients of the user outputs some node reads, and
\* among them those no node produces
UserOutputGradNames(g, inf) ==
  LET input_names == InputNames(SeqToSet(g.nodes))
  IN SelectSeq([i \in DOMAIN inf.user_output_names |-> GradName(inf.user_output_names[i])],
               LAMBDA gn : gn \in input_names)

BackwardOutputGradNames(g, inf) ==
  LET output_names == OutputNames(SeqToSet(g.nodes))
  IN SelectSeq(UserOutputGradNames(g, inf), LAMBDA gn : gn \notin output_names)

\* lines 200-207
InitializerGradNames(g, inf) ==
  LET output_names == OutputNames(SeqToSet(g.nodes))
  IN SelectSeq([i \in DOMAIN inf.initializer_names_to_train |->
                  GradName(inf.initializer_names_to_train[i])],
               LAMBDA gn : gn \in output_names)

\* lines 160-218: inputs and outputs of the combined graph
FixGradientInterface(g, inf, cfg) ==
  LET output_names == OutputNames(SeqToSet(g.nodes))
      bog == BackwardOutputGradNames(g, inf)
      input_args == g.inputs \o [i \in DOMAIN bog |-> GetNodeArg(g, bog[i])]
      ig == InitializerGradNames(g, inf)
      xg == SelectSeq([i \in DOMAIN cfg.input_names_require_grad |->
                         GradName(cfg.input_names_require_grad[i])],
                      LAMBDA gn : gn \in output_names)
      output_args ==
        [i \in DOMAIN inf.user_output_names |-> GetNodeArg(g, inf.user_output_names[i])]
        \o [i \in DOMAIN ig |-> GetNodeArg(g, ig[i])]
        \o [i \in DOMAIN xg |-> GetNodeArg(g, xg[i])]
  IN SetOutputs(SetInputs(g, input_args), output_args)

\* The gradient lists filled without lines 176, 177 and 200 clearing them
FixGradientInfoAppending(g, inf) ==
  [inf EXCEPT !.user_output_grad_names = @ \o UserOutputGradNames(g, inf),
              !.backward_output_grad_names = @ \o BackwardOutputGradNames(g, inf),
              !.initializer_grad_names_to_train = @ \o InitializerGradNames(g, inf)]

\* lines 176-207: the gradient lists of split_graphs_info_
FixGradientInfo(g, inf) ==
  [inf EXCEPT !.user_output_grad_names = UserOutputGradNames(g, inf),
              !.backward_output_grad_names = BackwardOutputGradNames(g, inf),
              !.initializer_grad_names_to_train = InitializerGradNames(g, inf)]

FailPoints == {"none", "load", "resolve", "opt1", "diff", "opt2", "loadF", "loadB"}

BuildAndSplit(d, failAt, saved, nograd) ==
  /\ model_ # NoModel
  /\ \E g1 \in {Specialize(CopyModel(model_), info, d)} :
       IF failAt \in {"load", "resolve", "opt1", "diff"} \/ ~Resolve(g1)
       THEN /\ status' = "fail"
            /\ last_call' = [last_call EXCEPT !.op = "BuildAndSplit", !.combined = NoModel]
            /\ UNCHANGED <<info, forward_model_, backward_model_>>
       ELSE
         \E g2 \in {Differentiate(ApplyTransformers(g1), info.user_output_names,
                                  XNames(config_), TRUE, saved, nograd)} :
         \E g3 \in {ApplyTransformers(FixGradientInterface(g2, info, config_))},
            inf2 \in {FixGradientInfo(g2, info)} :
           IF failAt \in {"opt2", "loadF"}
           THEN /\ status' = "fail"
                /\ last_call' = [last_call EXCEPT !.op = "BuildAndSplit",
                                                  !.combined = NoModel]
                /\ info' = inf2
                /\ UNCHANGED <<forward_model_, backward_model_>>
           ELSE IF failAt = "loadB"
           THEN /\ status' = "fail"
                /\ last_call' = [last_call EXCEPT !.op = "BuildAndSplit",
                                                  !.combined = NoModel]
                /\ info' = inf2
                /\ forward_model_' = CopyModel(g3)
                /\ UNCHANGED backward_model_
           ELSE \E order \in Perms(IntermediateArgNames(g3)) :
                  /\ forward_model_' = SplitForward(CopyModel(g3), inf2, order)
                  /\ backward_model_' = SplitBackward(CopyModel(g3), inf2, order)
                  /\ info' = SplitInfo(g3, inf2, order)
                  /\ status' = SplitStatus(forward_model_', backward_model_')
                  /\ last_call' = [last_call EXCEPT !.op = "BuildAndSplit",
                                                    !.combined = g3]
  /\ UNCHANGED <<model_, config_, gradient_model_, rvars, svars, cvars, tvars>>

\* ------------------------------------------------------------------------
\* Build (lines 245-264), AddYieldOp (321-403), ReorderOutputs (405-447)
\* ------------------------------------------------------------------------
\* lines 326-372: the main Yield node
YieldInputNames(g, inf) ==
  LET produced == OutputNames(SeqToSet(g.nodes))
  IN SelectSeq(inf.user_output_names, LAMBDA nm : GradName(nm) \notin produced)
     \o SelectSeq(inf.user_output_names, LAMBDA nm : GradName(nm) \in produced)

YieldOutputNames(g, inf) ==
  LET produced == OutputNames(SeqToSet(g.nodes))
      free == SelectSeq(inf.user_output_names, LAMBDA nm : GradName(nm) \notin produced)
  IN [i \in DOMAIN free |-> GradName(free[i])]

MainYieldNode(g, inf) ==
  LET yin == YieldInputNames(g, inf)
      yout == YieldOutputNames(g, inf)
  IN MkNodeP("YieldOp_fw_op", "Yield", "Yield Op",
             [i \in DOMAIN yin |-> GetNodeArg(g, yin[i])],
             [i \in DOMAIN yout |-> GetNodeArg(g, yout[i])], 0, {}, kMSDomain)

\* lines 385-400: the gradient names of the trainable initializers in the
\* order in which the nodes of `order` produce them
ProducedInitGrads(g, inf, order) ==
  LET grad_names == {GradName(nm) : nm \in SeqToSet(inf.initializer_names_to_train)}
  IN Concat([k \in DOMAIN order |->
               SelectSeq(g.nodes[order[k]].outputs, LAMBDA nm : nm \in grad_names)])

\* grad_name_map
InitializerOfGrad(inf, gn) ==
  CHOOSE nm \in SeqToSet(inf.initializer_names_to_train) : GradName(nm) = gn

GradYieldNode(g, gn) ==
  MkNodeP("YieldOp_" \o gn, "Yield", "Yield Op", <<GetNodeArg(g, gn)>>, <<>>, 0,
          {<<"push_input", 1>>}, kMSDomain)

RECURSIVE AddNodes(_, _)
AddNodes(g, ns) == IF ns = <<>> THEN g ELSE AddNodes(AddNode(g, Head(ns)), Tail(ns))

AddYieldOpGraph(g, inf, order) ==
  LET pg == ProducedInitGrads(g, inf, order)
  IN AddNodes(AddNode(g, MainYieldNode(g, inf)),
              [k \in DOMAIN pg |-> GradYieldNode(g, pg[k])])

AddYieldOpInfo(g, inf, order) ==
  LET pg == ProducedInitGrads(g, inf, order)
  IN [inf EXCEPT
        !.user_output_grad_names =
           [i \in DOMAIN inf.user_output_names |-> GradName(inf.user_output_names[i])],
        !.backward_output_grad_names = YieldOutputNames(g, inf),
        !.initializer_grad_names_to_train =
           [i \in DOMAIN inf.initializer_names_to_train |->
              GradName(inf.initializer_names_to_train[i])],
        !.ordered_initializer_names =
           Reverse(@ \o [k \in DOMAIN pg |-> InitializerOfGrad(inf, pg[k])])]

\* lines 422-434: the user inputs that require a gradient, in user-input order
RequiredInputs(inf, cfg) ==
  SelectSeq(inf.user_input_names, LAMBDA nm : Contains(cfg.input_names_require_grad, nm))

\* line 429: ORT_ENFORCE throws at the first required gradient that is not a
\* declared output of the gradient graph
ReorderThrows(g, inf, cfg) ==
  \E nm \in SeqToSet(RequiredInputs(inf, cfg)) : ~Contains(g.outputs, GradName(nm))

ReorderOutputsGraph(g, inf, cfg) ==
  LET req == RequiredInputs(inf, cfg)
      new_output_args ==
        [i \in DOMAIN inf.user_output_names |-> GetNodeArg(g, inf.user_output_names[i])]
        \o [i \in DOMAIN req |-> GradName(req[i])]
  IN IF ReorderThrows(g, inf, cfg) THEN g ELSE SetOutputs(g, new_output_args)

ReorderOutputsInfo(g, inf, cfg) ==
  LET req == RequiredInputs(inf, cfg)
      first_bad == IF ReorderThrows(g, inf, cfg)
                   THEN CHOOSE i \in DOMAIN req :
                          /\ ~Contains(g.outputs, GradName(req[i]))
                          /\ \A j \in 1..(i - 1) : Contains(g.outputs, GradName(req[j]))
                   ELSE Len(req) + 1
  IN [inf EXCEPT !.user_input_grad_names =
        {<<req[i], GradName(req[i])>> : i \in 1..(first_bad - 1)}]

Build(failAt, saved, nograd) ==
  /\ model_ # NoModel
  /\ last_call.builds < MaxBuilds
  /\ \E called \in {[op |-> "Build", combined |-> NoModel, builds |-> last_call.builds + 1]},
        g0 \in {CopyModel(model_)} :
       IF failAt = "load"
       THEN /\ status' = "fail"
            /\ last_call' = called
            /\ UNCHANGED <<info, gradient_model_>>
       ELSE IF failAt \in {"resolve", "opt1", "diff"} \/ ~Resolve(g0)
       THEN /\ status' = "fail"
            /\ last_call' = called
            /\ gradient_model_' = g0
            /\ UNCHANGED info
       ELSE
         \E g2 \in {Differentiate(ApplyTransformers(g0), info.user_output_names,
                                  XNames(config_), FALSE, saved, nograd)} :
           IF failAt = "opt2"
           THEN /\ status' = "fail"
                /\ last_call' = called
                /\ gradient_model_' = g2
                /\ UNCHANGED info
           ELSE \E order \in TopoOrders(g2) :
                \E g3 \in {AddYieldOpGraph(ApplyTransformers(g2), info, order)},
                   inf3 \in {AddYieldOpInfo(ApplyTransformers(g2), info, order)} :
                  /\ gradient_model_' = ReorderOutputsGraph(g3, inf3, config_)
                  /\ info' = ReorderOutputsInfo(g3, inf3, config_)
                  /\ status' = IF ReorderThrows(g3, inf3, config_) THEN "throw" ELSE "ok"
                  /\ last_call' = [called EXCEPT !.combined = g2]
  /\ UNCHANGED <<model_, config_, forward_model_, backward_model_, rvars, svars, cvars, tvars>>

\* ------------------------------------------------------------------------
\* TransformerLayerRecompute
\* ------------------------------------------------------------------------
gelu_ops == {"Gelu", "BiasGelu", "FastGelu"}

dropout_ops == {"Dropout", "BiasDropout", "TrainableDropout"}

\* The elements of a set of node indices in increasing order (the order of
\* a NodeSet and of the edges of a node)
RECURSIVE SortedSeq(_)
SortedSeq(S) ==
  IF S = {} THEN <<>>
  ELSE LET m == CHOOSE a \in S : \A b \in S : a <= b
       IN <<m>> \o SortedSeq(S \ {m})

\* Node::GetOutputEdgesCount
GetOutputEdgesCount(g, i) == Cardinality(OutputEdges(g, i))

\* *node.OutputNodesBegin(): the consumer at the first output edge
FirstOutputNode(g, i) == CHOOSE c \in OutputNodes(g, i) : \A e \in OutputNodes(g, i) : c <= e

HasOutputNodes(g, i) == OutputNodes(g, i) # {}

\* lines 23-24: the node opens a layer
IsLayerStart(g, i) ==
  /\ g.nodes[i].op = "LayerNormalization" \/ g.nodes[i].op \in dropout_ops
  /\ GetOutputEdgesCount(g, i) = 4

\* lines 32-35: walk forward to a dropout op or to a node without consumers
RECURSIVE WalkToDropout(_, _)
WalkToDropout(g, i) ==
  IF HasOutputNodes(g, i) /\ g.nodes[i].op \notin dropout_ops
  THEN WalkToDropout(g, FirstOutputNode(g, i))
  ELSE i

\* lines 37-40: walk on to a LayerNormalization or to a node without consumers
RECURSIVE WalkToLayerNorm(_, _)
WalkToLayerNorm(g, i) ==
  IF HasOutputNodes(g, i) /\ g.nodes[i].op # "LayerNormalization"
  THEN WalkToLayerNorm(g, FirstOutputNode(g, i))
  ELSE i

\* line 30 dereferences OutputNodesBegin() of a gelu node; with no consumer
\* that is the end iterator and the read is undefined
GeluWithoutConsumer(g) ==
  \E i \in NodeIds(g) : g.nodes[i].op \in gelu_ops /\ ~HasOutputNodes(g, i)

\* lines 29-45: the end references node i contributes. ub is the node the
\* undefined read of line 30 yields when the gelu node has no consumer.
LayerEndOf(g, i, ub) ==
  IF g.nodes[i].op \notin gelu_ops THEN <<>>
  ELSE LET first == IF HasOutputNodes(g, i) THEN FirstOutputNode(g, i) ELSE ub
           last == WalkToLayerNorm(g, WalkToDropout(g, first))
       IN IF g.nodes[last].op = "LayerNormalization"
          THEN <<g.nodes[last].outputs[1]>> ELSE <<>>

\* lines 19-46: the start and end references in the order of the traversal
LayerStartEdges(g, order) ==
  Concat([k \in DOMAIN order |->
            IF IsLayerStart(g, order[k]) THEN <<g.nodes[order[k]].outputs[1]>> ELSE <<>>])

LayerEndEdges(g, order, ub) ==
  Concat([k \in DOMAIN order |-> LayerEndOf(g, order[k], ub)])

\* Mutant of EdgesBalanced: the counts are not compared
EdgesBalancedUnchecked(starts, ends) == TRUE

\* line 48
EdgesBalanced(starts, ends) == Len(starts) = Len(ends)

\* lines 11-58: ub = 0 stands for the undefined read ending the process
IdentifyTransformerLayerEdges(g, order, ub) ==
  LET starts == LayerStartEdges(g, order)
      ends == LayerEndEdges(g, order, ub)
      n == IF Len(starts) <= Len(ends) THEN Len(starts) ELSE Len(ends)
  IN IF GeluWithoutConsumer(g) /\ ub = 0
     THEN [status |-> "crash", starts |-> <<>>, ends |-> <<>>, pairs |-> <<>>]
     ELSE IF ~EdgesBalanced(starts, ends)
     THEN [status |-> "fail", starts |-> starts, ends |-> ends, pairs |-> <<>>]
     ELSE [status |-> "ok", starts |-> starts, ends |-> ends,
           pairs |-> [k \in 1..n |-> <<starts[k], ends[k]>>]]

\* lines 63-78: forward breadth-first traversal, queue and visited set
RECURSIVE ForwardBFS(_, _, _)
ForwardBFS(g, queue, visited) ==
  IF queue = <<>> THEN visited
  ELSE LET fresh == OutputNodes(g, Head(queue)) \ visited
       IN ForwardBFS(g, Tail(queue) \o SortedSeq(fresh), visited \cup fresh)

\* lines 80-97: reverse breadth-first traversal; the end node is in the
\* queue but not in the visited set
RECURSIVE BackwardBFS(_, _, _)
BackwardBFS(g, queue, visited) ==
  IF queue = <<>> THEN visited
  ELSE LET fresh == InputNodes(g, Head(queue)) \ visited
       IN BackwardBFS(g, Tail(queue) \o SortedSeq(fresh), visited \cup fresh)

\* Mutant of BwVisited: the end node starts in the visited set
BwVisitedWithEnd(g, end_node) == BackwardBFS(g, <<end_node>>, {end_node})

BwVisited(g, end_node) == BackwardBFS(g, <<end_node>>, {})

FwVisited(g, start) ==
  ForwardBFS(g, SortedSeq(ConsumersOf(g, start)), ConsumersOf(g, start))

\* lines 62-116
NodesBetweenEdges(g, start, end) ==
  SortedSeq(FwVisited(g, start) \cap BwVisited(g, ProducerOf(g, end)))

\* lines 129-139, 162-173: the input of the duplicate for input `input`
RecomputedInput(g, nodes, input) ==
  IF input \in g.inits \/ ~Contains(nodes, ProducerOf(g, input))
  THEN input
  ELSE RecomputeName(input)

\* lines 124-156: the duplicate of a Dropout or TrainableDropout node
RecomputeDropoutNode(g, nodes, node) ==
  MkNodeP(RecomputeName(node.name), "TrainableDropoutGrad",
          "Recompute of " \o node.name,
          <<RecomputedInput(g, nodes, node.inputs[1]), node.outputs[2], node.inputs[2]>>,
          <<RecomputeName(node.outputs[1])>>, -10, {}, kMSDomain)

\* Mutant of RecomputePlainNode: the input loop walks the output definitions
RecomputePlainNodeFromOutputs(g, nodes, node) ==
  MkNodeP(RecomputeName(node.name), node.op, "Recompute of " \o node.name,
          [k \in DOMAIN node.outputs |-> RecomputeName(node.outputs[k])],
          [k \in DOMAIN node.outputs |-> RecomputeName(node.outputs[k])],
          -10, node.attrs, node.domain)

\* lines 158-192: the duplicate of any other node
RecomputePlainNode(g, nodes, node) ==
  MkNodeP(RecomputeName(node.name), node.op, "Recompute of " \o node.name,
          [k \in DOMAIN node.inputs |-> RecomputedInput(g, nodes, node.inputs[k])],
          [k \in DOMAIN node.outputs |-> RecomputeName(node.outputs[k])],
          -10, node.attrs, node.domain)

RecomputeNode(g, nodes, node) ==
  IF node.op = "TrainableDropout" \/ node.op = "Dropout"
  THEN RecomputeDropoutNode(g, nodes, node)
  ELSE RecomputePlainNode(g, nodes, node)

\* The insertion with each duplicate written over the node it duplicates
InsertRecomputeNodesInPlace(g, nodes) ==
  LET F[k \in 0..Len(nodes)] ==
        IF k = 0 THEN g
        ELSE LET dup == RecomputeNode(F[k - 1], nodes, g.nodes[nodes[k]])
             IN [F[k - 1] EXCEPT !.nodes[nodes[k]] = dup,
                                 !.args = @ \cup SeqToSet(dup.inputs) \cup SeqToSet(dup.outputs)]
  IN F[Len(nodes)]

\* lines 118-198
InsertRecomputeNodes(g, nodes) ==
  LET F[k \in 0..Len(nodes)] ==
        IF k = 0 THEN g
        ELSE AddNode(F[k - 1], RecomputeNode(F[k - 1], nodes, g.nodes[nodes[k]]))
  IN F[Len(nodes)]

\* lines 204-207: the spans are taken on the edges of the resolved graph g0
RECURSIVE InsertAll(_, _, _)
InsertAll(g0, g, pairs) ==
  IF pairs = <<>> THEN g
  ELSE InsertAll(g0,
                 InsertRecomputeNodes(g, NodesBetweenEdges(g0, Head(pairs)[1], Head(pairs)[2])),
                 Tail(pairs))

\* Mutant of ApplyImplGraph: the nodes are inserted before the status is looked at
ApplyImplGraphInsertFirst(g, found) ==
  LET n == IF Len(found.starts) <= Len(found.ends) THEN Len(found.starts)
           ELSE Len(found.ends)
  IN InsertAll(g, g, [k \in 1..n |-> <<found.starts[k], found.ends[k]>>])

\* lines 200-211: the graph ApplyImpl leaves
ApplyImplGraph(g, found) ==
  IF found.status = "ok" THEN InsertAll(g, g, found.pairs) ELSE g

\* One application of the pass to the resolved graph, then the Resolve of
\* the transformer framework
ApplyImpl(order, ub) ==
  /\ graph # NoModel
  /\ passes < MaxPasses
  /\ rstatus # "crash"
  /\ Resolve(graph)
  /\ \E found \in {IdentifyTransformerLayerEdges(graph, order, ub)} :
       /\ rstatus' = found.status
       /\ edges_found' = [starts |-> found.starts, ends |-> found.ends]
       /\ graph' = ApplyImplGraph(graph, found)
       /\ modified' = IF found.status = "ok" THEN TRUE ELSE modified
  /\ pre_graph' = graph
  /\ passes' = IF graph' # graph THEN passes + 1 ELSE passes
  /\ UNCHANGED <<bvars, svars, cvars, tvars>>

\* ------------------------------------------------------------------------
\* The builder: construction, then any sequence of calls
\* ------------------------------------------------------------------------
NoEdges == [starts |-> <<>>, ends |-> <<>>]

IdleR ==
  /\ graph = NoModel /\ pre_graph = NoModel /\ rstatus = "none" /\ modified = FALSE
  /\ edges_found = NoEdges /\ passes = 0

IdleS == span_in = <<>> /\ span_out = <<>>

\* The calls that can be in progress at once, none of them started
RequestIds == {1, 2}

NoRequest == [pc |-> "idle", d |-> 0, saved |-> "input", graph |-> NoModel]

IdleC == requests = [r \in RequestIds |-> NoRequest]

\* No loop of the pass in progress
NoTraversal ==
  [pc |-> "idle", node |-> 0, end_node |-> 0,
   fw_queue |-> <<>>, fw_visited |-> {}, fw_log |-> <<>>,
   bw_queue |-> <<>>, bw_visited |-> {}, bw_log |-> <<>>]

IdleT == trav = NoTraversal

Init ==
  /\ model_ = NoModel /\ config_ = NoModel /\ info = EmptyInfo
  /\ forward_model_ = NoModel /\ backward_model_ = NoModel /\ gradient_model_ = NoModel
  /\ status = "none"
  /\ last_call = [op |-> "none", combined |-> NoModel, builds |-> 0]
  /\ IdleR /\ IdleS /\ IdleC /\ IdleT

NoGradChoices == {{}, {"c"}}

\* The multi-shape entry point: Initialize, then BuildAndSplit calls
Next ==
  \/ \E loaded \in ModelFamily, cfg \in ConfigFamily, ok \in BOOLEAN :
       Initialize(loaded, cfg, ok)
  \/ \E d \in Shapes, failAt \in FailPoints, saved \in SavedRules, nograd \in NoGradChoices :
       BuildAndSplit(d, failAt, saved, nograd)

Spec == Init /\ [][Next]_vars

\* The single-shape entry point: Initialize, then Build calls
NextBuild ==
  \/ \E loaded \in ModelFamily, cfg \in ConfigFamily, ok \in BOOLEAN :
       Initialize(loaded, cfg, ok)
  \/ \E failAt \in FailPoints \ {"loadF", "loadB"}, saved \in SavedRules,
        nograd \in NoGradChoices :
       Build(failAt, saved, nograd)

SpecBuild == Init /\ [][NextBuild]_vars

\* ------------------------------------------------------------------------
\* The recompute pass applied to resolved graphs
\* ------------------------------------------------------------------------
Digit == <<"1", "2", "3", "4", "5", "6", "7", "8", "9">>

RecomputeOps == {"LayerNormalization", "Gelu", "Dropout", "MatMul"}

\* Node k reads the output of node k-1 (node 1 the graph input x) and a second
\* input: the initializer r or the output of node 1. A Dropout-family node
\* has the mask as second output.
ChainNode(k, op, second) ==
  MkNode("n" \o Digit[k], op, "",
         <<IF k = 1 THEN "x" ELSE "o" \o Digit[k - 1], second>>,
         IF op \in dropout_ops THEN <<"o" \o Digit[k], "m" \o Digit[k]>>
         ELSE <<"o" \o Digit[k]>>)

\* The nodes 2..shared+1 read the output of node 1 as second input
ChainGraph(n, ops, shared) ==
  LET nodes == [k \in 1..n |->
                  ChainNode(k, ops[k], IF k >= 2 /\ k <= shared + 1 THEN "o1" ELSE "r")]
  IN [nodes |-> nodes, inputs |-> <<"x">>, outputs |-> <<"o" \o Digit[n]>>,
      inits |-> {"r"},
      args |-> {"x", "r"} \cup OutputNames(SeqToSet(nodes)), shape |-> 0]

IsChainGraph(g) ==
  \E n \in 1..MaxNodes :
    \E ops \in [1..n -> RecomputeOps], shared \in 0..(n - 1) :
      g = ChainGraph(n, ops, shared)

\* The nodes the undefined read of line 30 can yield; 0 ends the process
UbChoices(g) == IF GeluWithoutConsumer(g) THEN 0..Len(g.nodes) ELSE {0}

InitRecompute ==
  /\ model_ = NoModel /\ config_ = NoModel /\ info = EmptyInfo
  /\ forward_model_ = NoModel /\ backward_model_ = NoModel /\ gradient_model_ = NoModel
  /\ status = "none"
  /\ last_call = [op |-> "none", combined |-> NoModel, builds |-> 0]
  /\ IsChainGraph(graph)
  /\ pre_graph = NoModel /\ rstatus = "none" /\ modified = FALSE
  /\ edges_found = NoEdges /\ passes = 0
  /\ IdleS /\ IdleC /\ IdleT

NextRecompute ==
  /\ passes < MaxPasses
  /\ \E order \in TopoOrders(graph), ub \in UbChoices(graph) : ApplyImpl(order, ub)

SpecRecompute == InitRecompute /\ [][NextRecompute]_vars

\* ------------------------------------------------------------------------
\* Span extraction applied to any pair of references of an acyclic graph
\* ------------------------------------------------------------------------
\* The ways to pick one or two inputs among the available names
InputChoices(k) ==
  LET avail == <<"x">> \o [j \in 1..(k - 1) |-> "o" \o Digit[j]]
  IN {<<avail[a]>> : a \in DOMAIN avail}
     \cup {<<avail[a], avail[b]>> : <<a, b>> \in {p \in (DOMAIN avail) \X (DOMAIN avail) :
                                                   p[1] < p[2]}}

DagGraph(n, ins) ==
  LET nodes == [k \in 1..n |-> MkNode("n" \o Digit[k], "Op", "", ins[k], <<"o" \o Digit[k]>>)]
  IN [nodes |-> nodes, inputs |-> <<"x">>, outputs |-> <<"o" \o Digit[n]>>,
      inits |-> {}, args |-> {"x"} \cup OutputNames(SeqToSet(nodes)), shape |-> 0]

RECURSIVE DagInputs(_)
DagInputs(n) ==
  IF n = 0 THEN {<<>>}
  ELSE {Append(p, c) : p \in DagInputs(n - 1), c \in InputChoices(n)}

IsDagGraph(g) ==
  \E n \in 1..MaxSpanNodes : \E ins \in DagInputs(n) : g = DagGraph(n, ins)

InitSpan ==
  /\ model_ = NoModel /\ config_ = NoModel /\ info = EmptyInfo
  /\ forward_model_ = NoModel /\ backward_model_ = NoModel /\ gradient_model_ = NoModel
  /\ status = "none"
  /\ last_call = [op |-> "none", combined |-> NoModel, builds |-> 0]
  /\ IsDagGraph(graph)
  /\ pre_graph = NoModel /\ rstatus = "none" /\ modified = FALSE
  /\ edges_found = NoEdges /\ passes = 0
  /\ IdleS /\ IdleC /\ IdleT

ExtractSpan(start, end) ==
  /\ span_in = <<>>
  /\ start \in graph.args
  /\ ProducerOf(graph, end) # 0
  /\ span_in' = <<start, end>>
  /\ span_out' = NodesBetweenEdges(graph, start, end)
  /\ UNCHANGED <<bvars, rvars, cvars, tvars>>

NextSpan == \E start \in graph.args, end \in graph.args : ExtractSpan(start, end)

SpecSpan == InitSpan /\ [][NextSpan]_vars

\* ------------------------------------------------------------------------
\* Properties of Split and BuildAndSplit
\* ------------------------------------------------------------------------
SplitDone == last_call.op = "BuildAndSplit" /\ last_call.combined # NoModel

SplitOk == SplitDone /\ status = "ok"

\* C1: after a successful Split every node of the combined graph is in
\* exactly one result: in the forward graph iff its description is not the
\* backward-pass marker, in the backward graph iff it is; neither result
\* holds a node that is not of the combined graph.
C1_SplitCompleteness ==
  SplitOk =>
    LET all == SeqToSet(last_call.combined.nodes)
        fwd == SeqToSet(forward_model_.nodes)
        bwd == SeqToSet(backward_model_.nodes)
    IN /\ \A n \in all : /\ (n \in fwd) <=> (n.desc # BackwardPass)
                         /\ (n \in bwd) <=> (n.desc = BackwardPass)
       /\ fwd \cup bwd \subseteq all
       /\ Len(forward_model_.nodes) + Len(backward_model_.nodes)
            = Len(last_call.combined.nodes)

C1_Witness ==
  /\ SplitOk
  /\ forward_model_.nodes # <<>>
  /\ backward_model_.nodes # <<>>

\* C2: after a successful buildAndSplit every name of
\* intermediate_tensor_names is a declared output of the forward graph and
\* a declared input of the backward graph.
C2_IntermediateClosure ==
  SplitOk =>
    \A nm \in SeqToSet(info.intermediate_tensor_names) :
      /\ Contains(forward_model_.outputs, nm)
      /\ Contains(backward_model_.inputs, nm)

C2_Witness == SplitOk /\ Len(info.intermediate_tensor_names) >= 2

\* C3: after Split every reference produced by an unmarked node and read by a
\* marked node is a declared input of the backward graph, also when it is
\* a user output.
C3_NoForwardOutputDropped ==
  SplitOk =>
    \A nm \in IntermediateArgNames(last_call.combined) :
      Contains(backward_model_.inputs, nm)

\* C9: Split fails whenever a declared backward input or an intermediate has
\* no reference in a copy, or Resolve of either copy fails.
C9_SplitReportsInconsistency ==
  (/\ SplitDone
   /\ \/ Contains(forward_model_.outputs, Null)
      \/ Contains(backward_model_.inputs, Null)
      \/ ~Resolve(forward_model_)
      \/ ~Resolve(backward_model_))
  => status = "fail"

\* C10: a failed buildAndSplit leaves the forward model, the backward model
\* and the split-graph metadata as they were before the call.
C10_FailureLeavesStateAlone ==
  [][(status' = "fail" /\ last_call'.op = "BuildAndSplit")
       => /\ forward_model_' = forward_model_
          /\ backward_model_' = backward_model_
          /\ info' = info]_vars

\* ------------------------------------------------------------------------
\* Properties of Build
\* ------------------------------------------------------------------------
BuildOk == last_call.op = "Build" /\ status = "ok"

\* C4: after a successful build() the declared outputs of the gradient graph
\* are the user outputs, then <input>_grad for each user input requiring a
\* gradient in user-input order, then <initializer>_grad for each trainable
\* initializer in initializer order.
C4_OutputOrder ==
  BuildOk =>
    gradient_model_.outputs =
      info.user_output_names
      \o [i \in DOMAIN RequiredInputs(info, config_) |->
            GradName(RequiredInputs(info, config_)[i])]
      \o [i \in DOMAIN info.initializer_names_to_train |->
            GradName(info.initializer_names_to_train[i])]

\* ------------------------------------------------------------------------
\* Properties of the recompute pass
\* ------------------------------------------------------------------------
PassReturned == rstatus \in {"ok", "fail"}

\* C5: applying the pass to the resolved graph a successful application
\* left succeeds and adds no node.
C5_SecondPassIsNoOp ==
  [][(rstatus = "ok" /\ ~GeluWithoutConsumer(graph) /\ rstatus' # "crash")
       => /\ rstatus' = "ok"
          /\ Len(graph'.nodes) = Len(graph.nodes)]_vars

\* C7: the pass fails whenever the number of start references it detected
\* differs from the number of end references; so it does on a graph with
\* one qualifying LayerNormalization start and no gelu node.
C7_UnbalancedFails ==
  (PassReturned /\ Len(edges_found.starts) # Len(edges_found.ends))
    => rstatus = "fail"

C7_Witness ==
  /\ rstatus = "fail"
  /\ Len(edges_found.starts) = 1
  /\ edges_found.ends = <<>>
  /\ pre_graph.nodes[1].op = "LayerNormalization"
  /\ edges_found.starts[1] = pre_graph.nodes[1].outputs[1]
  /\ \A i \in NodeIds(pre_graph) : pre_graph.nodes[i].op \notin gelu_ops

\* C8: when the pass returns a failure the graph is the graph from before
\* the pass: the same nodes with the same inputs and outputs.
C8_FailureLeavesGraph ==
  rstatus = "fail" => graph = pre_graph

C8_Witness ==
  /\ rstatus = "fail"
  /\ edges_found.starts # <<>>
  /\ edges_found.ends # <<>>
  /\ NodesBetweenEdges(pre_graph, edges_found.starts[1], edges_found.ends[1]) # <<>>

\* ------------------------------------------------------------------------
\* Properties of span extraction
\* ------------------------------------------------------------------------
\* Nodes reachable from the nodes of S along output edges (S included)
RECURSIVE Descendants(_, _)
Descendants(g, S) ==
  LET T == S \cup UNION {OutputNodes(g, i) : i \in S}
  IN IF T = S THEN S ELSE Descendants(g, T)

\* Nodes from which a node of S is reachable (S included)
RECURSIVE Ancestors(_, _)
Ancestors(g, S) ==
  LET T == S \cup UNION {InputNodes(g, i) : i \in S}
  IN IF T = S THEN S ELSE Ancestors(g, T)

Chain4 == DagGraph(4, <<<<"x">>, <<"o1">>, <<"o2">>, <<"o3">>>>)

\* C6: on an acyclic graph the span of (start, end) is the set of nodes
\* reachable from the consumers of start (these included) that are proper
\* ancestors of the producer of end; it holds neither the producer of start
\* nor the producer of end, and on the chain n1 -> n2 -> n3 -> n4 with start
\* the output of n1 and end the output of n4 it is n2, n3.
C6_SpanIsReachableAncestors ==
  span_in # <<>> =>
    LET start == span_in[1]
        end == span_in[2]
        end_node == ProducerOf(graph, end)
    IN /\ SeqToSet(span_out)
            = Descendants(graph, ConsumersOf(graph, start))
                \cap (Ancestors(graph, {end_node}) \ {end_node})
       /\ NoDup(span_out)
       /\ ~Contains(span_out, end_node)
       /\ ~Contains(span_out, ProducerOf(graph, start))
       /\ (graph = Chain4 /\ start = "o1" /\ end = "o4") => span_out = <<2, 3>>

C6_Witness ==
  /\ graph = Chain4
  /\ span_in = <<"o1", "o4">>
  /\ span_out = <<2, 3>>

\* ------------------------------------------------------------------------
\* Further properties of BuildAndSplit
\* ------------------------------------------------------------------------
\* The trainable initializers no node of the combined graph produces a
\* gradient for
MissingGradients ==
  {nm \in SeqToSet(info.initializer_names_to_train) :
     GradName(nm) \notin OutputNames(SeqToSet(last_call.combined.nodes))}

\* C11: a build whose combined graph has no node producing <name>_grad for
\* a configured trainable initializer fails instead of succeeding without
\* that gradient.
C11_MissingGradientFails ==
  (SplitDone /\ MissingGradients # {}) => status = "fail"

\* ------------------------------------------------------------------------
\* The whole flow: the builder produces graphs, and the recompute pass is
\* applied to a graph given from outside or to one the builder produced
\* ------------------------------------------------------------------------
\* The pass is handed graph g. A builder is used through one of its two
\* entry points, the multi-shape or the single-shape one.
SubmitGraph(g) ==
  /\ graph = NoModel
  /\ g # NoModel
  /\ Resolve(g)
  /\ graph' = g
  /\ UNCHANGED <<pre_graph, rstatus, modified, edges_found, passes, bvars, svars, cvars, tvars>>

InitPipeline ==
  /\ model_ = NoModel /\ config_ = NoModel /\ info = EmptyInfo
  /\ forward_model_ = NoModel /\ backward_model_ = NoModel /\ gradient_model_ = NoModel
  /\ status = "none"
  /\ last_call = [op |-> "none", combined |-> NoModel, builds |-> 0]
  /\ (graph = NoModel \/ IsChainGraph(graph))
  /\ pre_graph = NoModel /\ rstatus = "none" /\ modified = FALSE
  /\ edges_found = NoEdges /\ passes = 0
  /\ IdleS /\ IdleC /\ IdleT

NextPipeline ==
  \/ /\ graph = NoModel
     /\ \E loaded \in ModelFamily, cfg \in ConfigFamily : Initialize(loaded, cfg, TRUE)
  \/ /\ graph = NoModel
     /\ last_call.op # "Build"
     /\ \E saved \in SavedRules, nograd \in NoGradChoices :
          BuildAndSplit(1, "none", saved, nograd)
  \/ /\ graph = NoModel
     /\ last_call.op # "BuildAndSplit"
     /\ \E saved \in SavedRules, nograd \in NoGradChoices : Build("none", saved, nograd)
  \/ \E g \in {forward_model_, backward_model_, gradient_model_} : SubmitGraph(g)
  \/ /\ graph # NoModel
     /\ \E order \in TopoOrders(graph), ub \in UbChoices(graph) : ApplyImpl(order, ub)

SpecPipeline == InitPipeline /\ [][NextPipeline]_vars

\* C12: every graph the builder or the pass leaves (forward, backward,
\* gradient, recomputed) is acyclic: peeling off the nodes whose producers
\* are all placed leaves no node, so a topological order exists.
C12_AcyclicityPreserved ==
  \A g \in {forward_model_, backward_model_, gradient_model_, graph} :
    g # NoModel => Acyclic(g)

C12_Witness ==
  /\ rstatus = "ok"
  /\ Len(graph.nodes) > Len(pre_graph.nodes)
  /\ Acyclic(graph)

\* ------------------------------------------------------------------------
\* Two BuildAndSplit calls on one builder, interleaved at the statements
\* that read or write its members
\* ------------------------------------------------------------------------
\* Split, lines 519-580, with the name sets lines 465-474 collect from the
\* forward copy fg
SplitBackwardOf(fg, bg, inf, order) ==
  LET backward_input_names == InputNames(NodeSetOf(fg, BackwardIds(fg)))
      backward_output_names == OutputNames(NodeSetOf(fg, BackwardIds(fg)))
      g1 == FilterInitializers(RemoveNodes(bg, ForwardIds(bg)), backward_input_names)
      InBackward(nm) == nm \in backward_input_names
      user_in == SelectSeq(inf.user_input_names, InBackward)
      init_in == SelectSeq(inf.initializer_names_to_train, InBackward)
      g2 == [g1 EXCEPT !.inits = @ \ SeqToSet(init_in)]
      IsBackwardOutput(nm) == nm \in backward_output_names
      backward_output_args == SelectSeq(g2.outputs, IsBackwardOutput)
  IN SetOutputs(SetInputs(g2, BackwardInputArgs(g2, user_in, init_in,
                                                IntermediateTensorNames(inf, order),
                                                inf.backward_output_grad_names)),
                backward_output_args)

\* lines 91-158: the local copy, specialized and differentiated
StartRequest(r, d, saved) ==
  /\ model_ # NoModel
  /\ requests[r].pc = "idle"
  /\ \A q \in RequestIds :
       /\ requests[q].pc # "idle" => requests[q].saved = saved
       /\ requests[q].pc \notin {"idle", "done"} => requests[q].d # d
  /\ requests' = [requests EXCEPT ![r] =
       [pc |-> "differentiated", d |-> d, saved |-> saved,
        graph |-> Differentiate(ApplyTransformers(Specialize(CopyModel(model_), info, d)),
                                info.user_output_names, XNames(config_), TRUE, saved, {})]]
  /\ UNCHANGED <<bvars, rvars, svars, tvars>>

\* lines 160-223: the gradient lists of split_graphs_info_ and the interface
\* of the local graph
FixRequest(r) ==
  /\ requests[r].pc = "differentiated"
  /\ info' = FixGradientInfo(requests[r].graph, info)
  /\ requests' = [requests EXCEPT
       ![r].pc = "fixed",
       ![r].graph = ApplyTransformers(FixGradientInterface(@, info, config_))]
  /\ UNCHANGED <<model_, config_, forward_model_, backward_model_, gradient_model_,
                 status, last_call, rvars, svars, tvars>>

\* line 227
LoadForward(r) ==
  /\ requests[r].pc = "fixed"
  /\ forward_model_' = CopyModel(requests[r].graph)
  /\ requests' = [requests EXCEPT ![r].pc = "loadedF"]
  /\ UNCHANGED <<model_, config_, info, backward_model_, gradient_model_,
                 status, last_call, rvars, svars, tvars>>

\* line 228
LoadBackward(r) ==
  /\ requests[r].pc = "loadedF"
  /\ backward_model_' = CopyModel(requests[r].graph)
  /\ requests' = [requests EXCEPT ![r].pc = "loadedB"]
  /\ UNCHANGED <<model_, config_, info, forward_model_, gradient_model_,
                 status, last_call, rvars, svars, tvars>>

\* line 231: Split on the members
SplitRequest(r) ==
  /\ requests[r].pc = "loadedB"
  /\ \E order \in Perms(IntermediateArgNames(forward_model_)) :
       /\ forward_model_' = SplitForward(forward_model_, info, order)
       /\ backward_model_' = SplitBackwardOf(forward_model_, backward_model_, info, order)
       /\ info' = SplitInfo(forward_model_, info, order)
  /\ requests' = [requests EXCEPT ![r].pc = "done"]
  /\ UNCHANGED <<model_, config_, gradient_model_, status, last_call, rvars, svars, tvars>>

NextConcurrent ==
  \/ \E loaded \in ModelFamily, cfg \in ConfigFamily : Initialize(loaded, cfg, TRUE)
  \/ \E r \in RequestIds, d \in Shapes, saved \in SavedRules : StartRequest(r, d, saved)
  \/ \E r \in RequestIds : FixRequest(r)
  \/ \E r \in RequestIds : LoadForward(r)
  \/ \E r \in RequestIds : LoadBackward(r)
  \/ \E r \in RequestIds : SplitRequest(r)

SpecConcurrent == Init /\ [][NextConcurrent]_vars

\* What a call for shape d produces when no other call is in progress
AloneResults(d, saved) ==
  LET g2 == Differentiate(ApplyTransformers(Specialize(CopyModel(model_), info, d)),
                          info.user_output_names, XNames(config_), TRUE, saved, {})
      g3 == ApplyTransformers(FixGradientInterface(g2, info, config_))
      inf2 == FixGradientInfo(g2, info)
  IN {<<SplitForward(CopyModel(g3), inf2, order), SplitBackward(CopyModel(g3), inf2, order),
        SplitInfo(g3, inf2, order)>> : order \in Perms(IntermediateArgNames(g3))}

\* C13: under any interleaving of two calls for distinct shapes, each call
\* ends with the forward graph, backward graph and split metadata it
\* produces when run alone.
C13_RequestsIndependent ==
  [][\A r \in RequestIds :
       (requests[r].pc = "loadedB" /\ requests'[r].pc = "done")
         => <<forward_model_', backward_model_', info'>>
              \in AloneResults(requests[r].d, requests[r].saved)]_vars

\* ------------------------------------------------------------------------
\* Repeated BuildAndSplit calls
\* ------------------------------------------------------------------------
\* split_graphs_info_ as Initialize leaves it
FreshInfo ==
  [EmptyInfo EXCEPT !.user_input_names = info.user_input_names,
                    !.user_output_names = info.user_output_names,
                    !.initializer_names_to_train = info.initializer_names_to_train]

\* What the first call for shape d after Initialize produces (the order of
\* the intermediates is the iteration order of an unordered set)
OnceResults(d, saved) ==
  LET g2 == Differentiate(ApplyTransformers(Specialize(CopyModel(model_), FreshInfo, d)),
                          FreshInfo.user_output_names, XNames(config_), TRUE, saved, {})
      g3 == ApplyTransformers(FixGradientInterface(g2, FreshInfo, config_))
      inf2 == FixGradientInfo(g2, FreshInfo)
  IN {<<SplitForward(CopyModel(g3), inf2, order), SplitBackward(CopyModel(g3), inf2, order),
        SplitInfo(g3, inf2, order)>> : order \in Perms(IntermediateArgNames(g3))}

\* A call that ends after another call for the same shapes has ended
SecondCallEnds(r) ==
  /\ requests[r].pc = "loadedB" /\ requests'[r].pc = "done"
  /\ \E q \in RequestIds \ {r} : requests[q].pc = "done" /\ requests[q].d = requests[r].d

\* C14: no step of a BuildAndSplit call changes the base model or the
\* configuration, and a call made after another call for the same shapes
\* ends with a forward graph, backward graph and split metadata that a
\* single call after Initialize yields (no metadata list has accumulated).
C14_Repeatable ==
  [][/\ model_ # NoModel => (model_' = model_ /\ config_' = config_)
     /\ \A r \in RequestIds :
          SecondCallEnds(r)
            => <<forward_model_', backward_model_', info'>>
                 \in OnceResults(requests[r].d, requests[r].saved)]_vars

C14_Witness ==
  /\ \A r \in RequestIds : requests[r].pc = "done"
  /\ requests[1].d = requests[2].d
  /\ info.initializer_grad_names_to_train # <<>>
  /\ info.backward_output_grad_names # <<>>
  /\ info.intermediate_tensor_names # <<>>

\* ------------------------------------------------------------------------
\* Initialize on model files that list initializers among the graph inputs
\* ------------------------------------------------------------------------
\* The initializers the model file also lists as graph inputs
\* (GetInputsIncludingInitializers, line 59, returns them with the inputs)
ListedInitializers == {<<>>, <<"w">>, <<"c", "w">>}

LoadedFamily ==
  {[loaded EXCEPT !.inputs = @ \o listed] :
     loaded \in ModelFamily, listed \in ListedInitializers}

NextInitialize ==
  \/ \E loaded \in LoadedFamily, cfg \in ConfigFamily, ok \in BOOLEAN :
       Initialize(loaded, cfg, ok)
  \/ \E d \in Shapes, saved \in SavedRules : BuildAndSplit(d, "none", saved, {})

SpecInitialize == Init /\ [][NextInitialize]_vars

\* C15: a successful Initialize leaves user_input_names and
\* user_output_names equal to the loaded graph's inputs and outputs in
\* order, the graph's declared inputs equal to the user inputs followed by
\* the configured trainable initializers with no name listed twice, and no
\* configured trainable initializer among the graph's constants.
C15_InitializeInterface ==
  [][\A loaded \in LoadedFamily, cfg \in ConfigFamily :
       Initialize(loaded, cfg, TRUE)
         => /\ info'.user_input_names = loaded.inputs
            /\ info'.user_output_names = loaded.outputs
            /\ model_'.inputs = loaded.inputs \o cfg.initializer_names_to_train
            /\ NoDup(model_'.inputs)
            /\ SeqToSet(cfg.initializer_names_to_train) \cap model_'.inits = {}]_vars

\* ------------------------------------------------------------------------
\* The interfaces of the two graphs Split leaves
\* ------------------------------------------------------------------------
\* The references a non-backward node of the combined graph produces, a
\* backward-tagged node consumes, and the user does not list as an output
CrossingNames(cg) ==
  {nm \in OutputNames({n \in SeqToSet(cg.nodes) : n.desc # BackwardPass}) :
     /\ \E n \in SeqToSet(cg.nodes) : n.desc = BackwardPass /\ Contains(n.inputs, nm)
     /\ ~Contains(info.user_output_names, nm)}

BackwardConsumed(cg) ==
  InputNames({n \in SeqToSet(cg.nodes) : n.desc = BackwardPass})

\* The gradients of the user outputs that some node consumes and no node
\* produces, in the order of the user outputs
OutputGradReferences(cg) ==
  SelectSeq([i \in DOMAIN info.user_output_names |-> GradName(info.user_output_names[i])],
            LAMBDA gn : /\ gn \in InputNames(SeqToSet(cg.nodes))
                        /\ gn \notin OutputNames(SeqToSet(cg.nodes)))

\* C17: after Split the backward graph's declared inputs are, in this
\* order, the user inputs a backward-tagged node consumes, the trainable
\* initializers a backward-tagged node consumes (none of them still a
\* constant of the backward graph), the intermediate references and the
\* output-gradient references; a user input or trainable initializer no
\* backward-tagged node consumes is not a backward input.
C17_BackwardInterface ==
  SplitDone =>
    LET cg == last_call.combined
        Consumed(nm) == nm \in BackwardConsumed(cg)
        user_in == SelectSeq(info.user_input_names, Consumed)
        init_in == SelectSeq(info.initializer_names_to_train, Consumed)
    IN /\ \E order \in Perms(CrossingNames(cg)) :
            backward_model_.inputs = user_in \o init_in \o order \o OutputGradReferences(cg)
       /\ SeqToSet(init_in) \cap backward_model_.inits = {}
       /\ \A nm \in SeqToSet(info.user_input_names \o info.initializer_names_to_train) :
            ~Consumed(nm) => ~Contains(backward_model_.inputs, nm)

C17_Witness ==
  /\ SplitDone
  /\ CrossingNames(last_call.combined) # {}
  /\ OutputGradReferences(last_call.combined) # <<>>
  /\ \E nm \in SeqToSet(info.user_input_names) : nm \in BackwardConsumed(last_call.combined)
  /\ \E nm \in SeqToSet(info.initializer_names_to_train) :
       nm \in BackwardConsumed(last_call.combined)
  /\ \E nm \in SeqToSet(info.initializer_names_to_train) :
       nm \notin BackwardConsumed(last_call.combined)

\* ------------------------------------------------------------------------
\* Boundary detection
\* ------------------------------------------------------------------------
\* The nodes met from node i on by following first consumers
RECURSIVE FirstConsumerChain(_, _)
FirstConsumerChain(g, i) ==
  IF HasOutputNodes(g, i) THEN <<i>> \o FirstConsumerChain(g, FirstOutputNode(g, i))
  ELSE <<i>>

\* The references of normalization nodes that follow a dropout-family op on
\* the chain of first consumers of a GELU-family node
EndsBehindDropout(g) ==
  {g.nodes[chain[b]].outputs[1] :
     <<chain, b>> \in
       {p \in {<<FirstConsumerChain(g, FirstOutputNode(g, i)), k>> :
                 i \in {j \in NodeIds(g) : g.nodes[j].op \in gelu_ops /\ HasOutputNodes(g, j)},
                 k \in NodeIds(g)} :
          /\ p[2] \in DOMAIN p[1]
          /\ g.nodes[p[1][p[2]]].op = "LayerNormalization"
          /\ \E a \in 1..(p[2] - 1) : g.nodes[p[1][a]].op \in dropout_ops}}

\* C19: every end reference boundary detection records is the first output
\* of a normalization node reached from a GELU-family node by following
\* first consumers through a dropout-family op; a chain that reaches a
\* normalization node without passing a dropout-family op records none.
C19_EndBehindDropout ==
  (PassReturned /\ ~GeluWithoutConsumer(pre_graph))
    => SeqToSet(edges_found.ends) \subseteq EndsBehindDropout(pre_graph)

\* ------------------------------------------------------------------------
\* The recompute pass applied to a transformer layer with backward nodes
\* ------------------------------------------------------------------------
MidOps == {"Dropout", "TrainableDropout", "BiasDropout", "MatMul"}

\* A normalization node n1, a GELU node n2, a node n3 of op mid whose second
\* input is sec, a normalization node n4, and two backward-tagged nodes: n5
\* consumes the reference bwin, n6 consumes the output of n1 pad times.
LayerGraph(mid, sec, bwin, pad) ==
  LET nodes ==
        <<MkNode("n1", "LayerNormalization", "", <<"x", "r">>, <<"o1">>),
          MkNode("n2", "Gelu", "", <<"o1", "r">>, <<"o2">>),
          MkNode("n3", mid, "", <<"o2", sec>>,
                 IF mid \in dropout_ops THEN <<"o3", "m3">> ELSE <<"o3">>),
          MkNode("n4", "LayerNormalization", "", <<"o3", "r">>, <<"o4">>),
          MkNode("n5", "LayerNormalizationGrad", BackwardPass, <<"g", bwin>>, <<"o5">>),
          MkNode("n6", "GeluGrad", BackwardPass,
                 <<"o5">> \o [k \in 1..pad |-> "o1"], <<"o6">>)>>
  IN [nodes |-> nodes, inputs |-> <<"x", "g">>, outputs |-> <<"o4", "o6">>,
      inits |-> {"r"},
      args |-> {"x", "g", "r"} \cup OutputNames(SeqToSet(nodes)), shape |-> 0]

IsLayerGraph(g) ==
  \E mid \in MidOps, sec \in {"r", "o1", "o2"}, bwin \in {"o2", "o3", "o4"},
     pad \in 0..MaxPad :
    g = LayerGraph(mid, sec, bwin, pad)

InitLayer ==
  /\ model_ = NoModel /\ config_ = NoModel /\ info = EmptyInfo
  /\ forward_model_ = NoModel /\ backward_model_ = NoModel /\ gradient_model_ = NoModel
  /\ status = "none"
  /\ last_call = [op |-> "none", combined |-> NoModel, builds |-> 0]
  /\ IsLayerGraph(graph)
  /\ pre_graph = NoModel /\ rstatus = "none" /\ modified = FALSE
  /\ edges_found = NoEdges /\ passes = 0
  /\ IdleS /\ IdleC /\ IdleT

NextLayer == \E order \in TopoOrders(graph) : ApplyImpl(order, 0)

SpecLayer == InitLayer /\ [][NextLayer]_vars

\* The pass succeeded and added duplicates to pre_graph
PassInserted == rstatus = "ok" /\ Len(graph.nodes) > Len(pre_graph.nodes)

\* The duplicates the pass added, and the nodes of pre_graph they duplicate
DuplicateIds == (Len(pre_graph.nodes) + 1)..Len(graph.nodes)

DuplicatedIds ==
  {i \in NodeIds(pre_graph) :
     \E k \in DuplicateIds : graph.nodes[k].name = RecomputeName(pre_graph.nodes[i].name)}

\* C18: after a successful pass, for every output of a span node that a
\* backward-pass node consumed before the pass and that got a _recompute
\* twin, that backward node consumes the twin, so the twin has a consumer
\* outside the duplicated set.
C18_DuplicatesFeedBackward ==
  PassInserted =>
    \A i \in DuplicatedIds, b \in NodeIds(pre_graph) :
      \A out \in SeqToSet(pre_graph.nodes[i].outputs) :
        (/\ pre_graph.nodes[b].desc = BackwardPass
         /\ Contains(pre_graph.nodes[b].inputs, out)
         /\ RecomputeName(out) \in OutputNames(SeqToSet(graph.nodes)))
          => /\ Contains(graph.nodes[b].inputs, RecomputeName(out))
             /\ \E c \in NodeIds(graph) \ DuplicateIds :
                  Contains(graph.nodes[c].inputs, RecomputeName(out))

\* The input the duplicate k has at the place of input p of the node it
\* duplicates (lines 140-141: a dropout duplicate has the mask in between)
DuplicateInput(k, p) ==
  IF graph.nodes[k].op = "TrainableDropoutGrad" /\ p = 2
  THEN graph.nodes[k].inputs[3]
  ELSE graph.nodes[k].inputs[p]

\* C20: for every duplicate and every input position of the node it
\* duplicates, the second input of a dropout node included, the duplicate's
\* input is the _recompute twin iff the input is not an initializer and
\* its producer is inside the span, and the original reference otherwise.
C20_DuplicateInputs ==
  PassInserted =>
    \A i \in DuplicatedIds, k \in DuplicateIds :
      graph.nodes[k].name = RecomputeName(pre_graph.nodes[i].name)
        => \A p \in DOMAIN pre_graph.nodes[i].inputs :
             LET input == pre_graph.nodes[i].inputs[p]
                 inside == /\ input \notin pre_graph.inits
                           /\ ProducerOf(pre_graph, input) \in DuplicatedIds
             IN DuplicateInput(k, p) = IF inside THEN RecomputeName(input) ELSE input

\* C21: every span node with a dropout-family op (Dropout, BiasDropout,
\* TrainableDropout) is duplicated as the recompute variant whose second
\* input is the mask output of the original node; every other span node is
\* duplicated with its own op type, attributes and domain.
C21_DropoutFamilyDuplicates ==
  PassInserted =>
    \A i \in DuplicatedIds, k \in DuplicateIds :
      graph.nodes[k].name = RecomputeName(pre_graph.nodes[i].name)
        => IF pre_graph.nodes[i].op \in dropout_ops
           THEN /\ graph.nodes[k].op = "TrainableDropoutGrad"
                /\ graph.nodes[k].inputs[2] = pre_graph.nodes[i].outputs[2]
           ELSE /\ graph.nodes[k].op = pre_graph.nodes[i].op
                /\ graph.nodes[k].attrs = pre_graph.nodes[i].attrs
                /\ graph.nodes[k].domain = pre_graph.nodes[i].domain

\* ------------------------------------------------------------------------
\* The Yield nodes build() adds
\* ------------------------------------------------------------------------
\* The main Yield node of the gradient graph
MainYield ==
  CHOOSE n \in SeqToSet(gradient_model_.nodes) : n.name = "YieldOp_fw_op"

\* The user outputs whose gradient no node of the differentiated graph
\* produces, in user-output order
FreeUserOutputs ==
  SelectSeq(info.user_output_names,
            LAMBDA nm : GradName(nm) \notin OutputNames(SeqToSet(last_call.combined.nodes)))

\* C22: the main Yield node build() adds has as inputs exactly the user
\* outputs whose gradient no node produces, in user-output order, and as
\* outputs the gradients of exactly those outputs in the same order, which
\* are also the metadata's backward_output_grad_names.
C22_MainYieldInterface ==
  BuildOk =>
    /\ MainYield.inputs = FreeUserOutputs
    /\ MainYield.outputs = [i \in DOMAIN FreeUserOutputs |-> GradName(FreeUserOutputs[i])]
    /\ info.backward_output_grad_names = MainYield.outputs

\* The Yield nodes of the gradient graph marked push_input = 1 whose sole
\* input is gn and which have no outputs
PushYields(gn) ==
  {k \in NodeIds(gradient_model_) :
     /\ gradient_model_.nodes[k].op = "Yield"
     /\ <<"push_input", 1>> \in gradient_model_.nodes[k].attrs
     /\ gradient_model_.nodes[k].inputs = <<gn>>
     /\ gradient_model_.nodes[k].outputs = <<>>}

\* C23: after build() every configured trainable initializer has exactly
\* one Yield node marked push_input = 1 whose sole input is its gradient and
\* which has no outputs, and initializer_grad_names_to_train names exactly
\* the gradients that have such a node.
C23_OneYieldPerInitializer ==
  BuildOk =>
    /\ \A nm \in SeqToSet(config_.initializer_names_to_train) :
         Cardinality(PushYields(GradName(nm))) = 1
    /\ SeqToSet(info.initializer_grad_names_to_train)
         = {gn \in gradient_model_.args : PushYields(gn) # {}}

\* The place in the visiting order `order` of the node of g producing nm
VisitOf(g, order, nm) ==
  CHOOSE k \in DOMAIN order : Contains(g.nodes[order[k]].outputs, nm)

\* C24: after every successful build() call, a repeated call included,
\* ordered_initializer_names holds each trainable initializer whose
\* gradient is produced exactly once, in the reverse of a topological order
\* in which the nodes producing the gradients are visited.
C24_OrderedInitializerNames ==
  BuildOk =>
    LET cg == last_call.combined
        names == info.ordered_initializer_names
    IN /\ NoDup(names)
       /\ SeqToSet(names) = {nm \in SeqToSet(info.initializer_names_to_train) :
                                GradName(nm) \in OutputNames(SeqToSet(cg.nodes))}
       /\ \E order \in TopoOrders(cg) :
            \A i, j \in DOMAIN names :
              i < j => VisitOf(cg, order, GradName(names[i]))
                         > VisitOf(cg, order, GradName(names[j]))

\* ------------------------------------------------------------------------
\* The loops of the pass, one iteration per step
\* ------------------------------------------------------------------------
\* The nodes a traversal enqueues without the test of lines 73 and 91
FreshNodesUnchecked(candidates, visited) == candidates

\* lines 73, 91: the nodes not yet in the visited set
FreshNodes(candidates, visited) == candidates \ visited

\* line 30: the walk from the GELU-family node i starts at its first consumer
StartWalk(i) ==
  /\ trav.pc = "idle"
  /\ graph.nodes[i].op \in gelu_ops
  /\ HasOutputNodes(graph, i)
  /\ trav' = [trav EXCEPT !.pc = "to_dropout", !.node = FirstOutputNode(graph, i)]
  /\ UNCHANGED <<bvars, rvars, svars, cvars>>

\* lines 32-35: one test of the first loop and, if it holds, its body
WalkToDropoutStep ==
  /\ trav.pc = "to_dropout"
  /\ IF HasOutputNodes(graph, trav.node) /\ graph.nodes[trav.node].op \notin dropout_ops
     THEN trav' = [trav EXCEPT !.node = FirstOutputNode(graph, trav.node)]
     ELSE trav' = [trav EXCEPT !.pc = "to_layernorm"]
  /\ UNCHANGED <<bvars, rvars, svars, cvars>>

\* lines 37-40: one test of the second loop and, if it holds, its body
WalkToLayerNormStep ==
  /\ trav.pc = "to_layernorm"
  /\ IF HasOutputNodes(graph, trav.node) /\ graph.nodes[trav.node].op # "LayerNormalization"
     THEN trav' = [trav EXCEPT !.node = FirstOutputNode(graph, trav.node)]
     ELSE trav' = [trav EXCEPT !.pc = "walked"]
  /\ UNCHANGED <<bvars, rvars, svars, cvars>>

\* lines 64-66 and 81: the consumers of start are enqueued and visited
StartForward(start, end) ==
  /\ trav.pc = "idle"
  /\ start \in graph.args
  /\ ProducerOf(graph, end) # 0
  /\ \E start_nodes \in {SortedSeq(ConsumersOf(graph, start))} :
       trav' = [trav EXCEPT !.pc = "forward", !.end_node = ProducerOf(graph, end),
                            !.fw_queue = start_nodes, !.fw_visited = SeqToSet(start_nodes),
                            !.fw_log = start_nodes]
  /\ UNCHANGED <<bvars, rvars, svars, cvars>>

\* lines 67-78: one iteration of the forward loop; lines 81-84 when the
\* queue is empty
ForwardStep ==
  /\ trav.pc = "forward"
  /\ IF trav.fw_queue # <<>>
     THEN \E fresh \in {SortedSeq(FreshNodes(OutputNodes(graph, Head(trav.fw_queue)),
                                              trav.fw_visited))} :
            trav' = [trav EXCEPT !.fw_queue = Tail(@) \o fresh,
                                 !.fw_visited = @ \cup SeqToSet(fresh),
                                 !.fw_log = @ \o fresh]
     ELSE trav' = [trav EXCEPT !.pc = "backward", !.bw_queue = <<trav.end_node>>,
                               !.bw_log = <<trav.end_node>>]
  /\ UNCHANGED <<bvars, rvars, svars, cvars>>

\* lines 86-97: one iteration of the reverse loop; lines 99-115 when the
\* queue is empty
BackwardStep ==
  /\ trav.pc = "backward"
  /\ IF trav.bw_queue # <<>>
     THEN /\ \E fresh \in {SortedSeq(FreshNodes(InputNodes(graph, Head(trav.bw_queue)),
                                                 trav.bw_visited))} :
               trav' = [trav EXCEPT !.bw_queue = Tail(@) \o fresh,
                                    !.bw_visited = @ \cup SeqToSet(fresh),
                                    !.bw_log = @ \o fresh]
          /\ UNCHANGED svars
     ELSE /\ trav' = [trav EXCEPT !.pc = "joined"]
          /\ span_out' = SortedSeq(trav.fw_visited \cap trav.bw_visited)
          /\ UNCHANGED span_in
  /\ UNCHANGED <<bvars, rvars, cvars>>

NextTraverse ==
  \/ \E i \in NodeIds(graph) : StartWalk(i)
  \/ WalkToDropoutStep
  \/ WalkToLayerNormStep
  \/ \E start \in graph.args, end \in graph.args : StartForward(start, end)
  \/ ForwardStep
  \/ BackwardStep

\* A loop that is entered runs its next iteration
SpecTraverse == InitLayer /\ [][NextTraverse]_vars /\ WF_vars(NextTraverse)

\* C25: on the acyclic graphs the pass is applied to, each consumer-chain
\* walk of boundary detection reaches a stopping node, each breadth-first
\* traversal of span extraction enqueues every node at most once, and both
\* queues become empty.
C25_PassTerminates ==
  /\ [](NoDup(trav.fw_log) /\ NoDup(trav.bw_log))
  /\ (trav.pc = "to_dropout") ~> (trav.pc = "walked")
  /\ (trav.pc = "forward") ~> (trav.pc = "joined" /\ trav.fw_queue = <<>> /\ trav.bw_queue = <<>>)

C25_Witness ==
  /\ trav.pc = "joined"
  /\ Len(trav.fw_log) >= 3
  /\ Len(trav.bw_log) >= 3
  /\ \E i \in NodeIds(graph) :
       Cardinality(OutputNodes(graph, i) \cap trav.fw_visited) >= 2

\* ------------------------------------------------------------------------
\* The recompute pass applied to graphs with two layer starts
\* ------------------------------------------------------------------------
\* Two GELU nodes n3 and n4 in front of one Dropout node n5 and one closing
\* normalization node n6; n1 is a normalization node and n2 a node of op
\* op2; the backward-tagged node n7 consumes the output of n1 p1 times and
\* the output of n2 p2 times.
NestedGraph(op2, src4, p1, p2) ==
  LET nodes ==
        <<MkNode("n1", "LayerNormalization", "", <<"x", "r">>, <<"o1">>),
          MkNode("n2", op2, "", <<"o1", "r">>, <<"o2">>),
          MkNode("n3", "Gelu", "", <<"o2", "r">>, <<"o3">>),
          MkNode("n4", "Gelu", "", <<src4, "r">>, <<"o4">>),
          MkNode("n5", "Dropout", "", <<"o3", "o4">>, <<"o5", "m5">>),
          MkNode("n6", "LayerNormalization", "", <<"o5", "r">>, <<"o6">>),
          MkNode("n7", "LayerNormalizationGrad", BackwardPass,
                 <<"g">> \o [k \in 1..p1 |-> "o1"] \o [k \in 1..p2 |-> "o2"], <<"o7">>)>>
  IN [nodes |-> nodes, inputs |-> <<"x", "g">>, outputs |-> <<"o6", "o7">>,
      inits |-> {"r"},
      args |-> {"x", "g", "r"} \cup OutputNames(SeqToSet(nodes)), shape |-> 0]

IsNestedGraph(g) ==
  \E op2 \in {"LayerNormalization", "MatMul"}, src4 \in {"o2", "o3"},
     p1 \in 0..MaxPad, p2 \in 0..MaxPad :
    g = NestedGraph(op2, src4, p1, p2)

InitNested ==
  /\ model_ = NoModel /\ config_ = NoModel /\ info = EmptyInfo
  /\ forward_model_ = NoModel /\ backward_model_ = NoModel /\ gradient_model_ = NoModel
  /\ status = "none"
  /\ last_call = [op |-> "none", combined |-> NoModel, builds |-> 0]
  /\ IsNestedGraph(graph)
  /\ pre_graph = NoModel /\ rstatus = "none" /\ modified = FALSE
  /\ edges_found = NoEdges /\ passes = 0
  /\ IdleS /\ IdleC /\ IdleT

\* One application to each graph
NextNested ==
  /\ rstatus = "none"
  /\ \E order \in TopoOrders(graph) : ApplyImpl(order, 0)

SpecNested == InitNested /\ [][NextNested]_vars

\* The span of the k-th (start, end) pair of the last application
SpanOfPair(k) ==
  SeqToSet(NodesBetweenEdges(pre_graph, edges_found.starts[k], edges_found.ends[k]))

\* C26: in one application of the pass to a graph with several detected
\* layers no node is in the spans of two different pairs, and after the
\* pass node names are unique and every reference has at most one producer.
C26_SpansDisjoint ==
  (rstatus = "ok" /\ Len(edges_found.starts) >= 2) =>
    /\ \A k, l \in DOMAIN edges_found.starts : k # l => SpanOfPair(k) \cap SpanOfPair(l) = {}
    /\ NoDup([i \in NodeIds(graph) |-> graph.nodes[i].name])
    /\ SingleProducer(graph)

\* C27: boundary detection never reads a consumer that does not exist: on
\* every graph, one with a GELU-family node without consumers included, it
\* completes, and only the GELU-family nodes that have a consumer
\* contribute an end reference.
C27_NoMissingConsumerRead ==
  (pre_graph # NoModel /\ rstatus # "none") =>
    /\ rstatus \in {"ok", "fail"}
    /\ Len(edges_found.ends)
         <= Cardinality({i \in NodeIds(pre_graph) :
                           pre_graph.nodes[i].op \in gelu_ops /\ HasOutputNodes(pre_graph, i)})

\* C28: an application of the pass sets modified to true only if it added
\* at least one node; when no boundary is detected or every span is empty
\* the graph is unchanged and modified is not set.
C28_ModifiedOnlyWhenAdded ==
  [][ /\ (~modified /\ modified') =>
           Cardinality(NodeIds(graph')) > Cardinality(NodeIds(graph))
      /\ (graph # NoModel /\ graph' = graph) => modified' = modified ]_vars

\* C29: after a successful Split the intermediate names appear once each
\* and in the same order in the metadata's intermediate_tensor_names, in the
\* forward graph's outputs directly after the user outputs, and in the
\* backward graph's inputs directly before the output-gradient inputs, so
\* position i of one list names the tensor of position i of the others.
C29_IntermediatesAligned ==
  SplitOk =>
    LET inter == info.intermediate_tensor_names
        fo == forward_model_.outputs
        bi == backward_model_.inputs
        nu == Len(info.user_output_names)
        ng == Len(OutputGradReferences(last_call.combined))
        first == Len(bi) - ng - Len(inter)
    IN /\ NoDup(inter)
       /\ Len(fo) = nu + Len(inter)
       /\ first >= 0
       /\ \A i \in DOMAIN inter :
            /\ fo[nu + i] = inter[i]
            /\ bi[first + i] = inter[i]
       /\ \A nm \in SeqToSet(inter) :
            /\ Cardinality({k \in DOMAIN fo : fo[k] = nm}) = 1
            /\ Cardinality({k \in DOMAIN bi : bi[k] = nm}) = 1
       /\ \A k \in 1..nu : fo[k] = info.user_output_names[k]
       /\ \A k \in 1..ng : bi[first + Len(inter) + k] = OutputGradReferences(last_call.combined)[k]

C29_Witness ==
  /\ SplitOk
  /\ Len(info.intermediate_tensor_names) >= 2
  /\ info.user_output_names # <<>>
  /\ OutputGradReferences(last_call.combined) # <<>>
  /\ Len(backward_model_.inputs)
       > Len(info.intermediate_tensor_names) + Len(OutputGradReferences(last_call.combined))

\* C30: the pass only adds nodes and references: every node the graph had
\* is still there with its op type, input list, output list, description
\* and priority, and the declared inputs and outputs of the graph are the
\* ones it had.
C30_PassOnlyAdds ==
  [][graph # NoModel =>
       /\ Len(graph'.nodes) >= Len(graph.nodes)
       /\ \A i \in NodeIds(graph) :
            /\ graph'.nodes[i].op = graph.nodes[i].op
            /\ graph'.nodes[i].inputs = graph.nodes[i].inputs
            /\ graph'.nodes[i].outputs = graph.nodes[i].outputs
            /\ graph'.nodes[i].desc = graph.nodes[i].desc
            /\ graph'.nodes[i].priority = graph.nodes[i].priority
       /\ graph.args \subseteq graph'.args
       /\ graph'.inputs = graph.inputs
       /\ graph'.outputs = graph.outputs]_vars

C30_Witness ==
  /\ PassInserted
  /\ Len(graph.nodes) >= Len(pre_graph.nodes) + 2
  /\ graph.args # pre_graph.args
  /\ \A i \in NodeIds(pre_graph) : graph.nodes[i] = pre_graph.nodes[i]

====
